---- MODULE Spec2Model ----
(***************************************************************************)
(* Model of src/main.rs: the ETF decline report.                           *)
(*                                                                         *)
(* main() walks the fixed ticker list, fetches one closing-price series    *)
(* per ticker, keeps the tickers whose price fell over the window, sorts   *)
(* them by the full-window rate and prints the report.                     *)
(*                                                                         *)
(* f64 values are modelled as exact rationals together with the three      *)
(* special values str::parse::<f64> can yield (NaN, +inf, -inf): a value   *)
(* is a pair <<n, d>>, d > 0 for the finite n/d in lowest terms,           *)
(* <<1, 0>> = +inf, <<-1, 0>> = -inf, <<0, 0>> = NaN.  Rounding and the    *)
(* sign of zero are not modelled.                                          *)
(***************************************************************************)
EXTENDS Integers, Sequences, FiniteSets, TLC

VARIABLES day, idx, pc, requests, results, pushed, stderr, stdout,
          qualified, failed, last, call

vars == <<day, idx, pc, requests, results, pushed, stderr, stdout,
          qualified, failed, last, call>>

(***************************************************************************)
(* Bounds of the model.                                                    *)
(***************************************************************************)
\* how many tickers of ETF_CODES a run walks
NumCodes == 2
\* largest lookback window the command line yields
MaxDay == 3
\* largest price text "-1", "0", "1", ... a response carries
MaxPrice == 1
\* longest response in a whole run
RunLen == 2
\* longest response when one loop iteration is examined alone
MaxLen == 3

(***************************************************************************)
(* f64                                                                     *)
(***************************************************************************)
NaN == <<0, 0>>
PInf == <<1, 0>>
NInf == <<-1, 0>>

Abs(n) == IF n < 0 THEN -n ELSE n
Sign(n) == IF n < 0 THEN -1 ELSE IF n > 0 THEN 1 ELSE 0

RECURSIVE Gcd(_, _)
Gcd(a, b) == IF b = 0 THEN a ELSE Gcd(b, a % b)

\* the finite value n/d (d > 0) in lowest terms
Norm(n, d) == LET g == Gcd(Abs(n), d) IN <<n \div g, d \div g>>

Fin(n) == <<n, 1>>

IsNaN(x) == x = NaN
IsFinite(x) == x[2] > 0
IsInf(x) == x = PInf \/ x = NInf

\* sign of an infinity, and of a finite value with zero counted as +0.0
InfSign(x) == x[1]
DivSign(x) == IF x[1] < 0 THEN -1 ELSE 1
SignedInf(s) == IF s < 0 THEN NInf ELSE PInf

\* a < b   (PartialOrd for f64: false when either side is NaN)
FLt(a, b) ==
    IF IsNaN(a) \/ IsNaN(b) THEN FALSE
    ELSE IF IsFinite(a) /\ IsFinite(b) THEN a[1] * b[2] < b[1] * a[2]
    ELSE IF IsInf(a) /\ IsInf(b) THEN a = NInf /\ b = PInf
    ELSE IF IsInf(a) THEN a = NInf
    ELSE b = PInf

FGt(a, b) == FLt(b, a)

\* a - b
FSub(a, b) ==
    IF IsNaN(a) \/ IsNaN(b) THEN NaN
    ELSE IF IsFinite(a) /\ IsFinite(b)
         THEN Norm(a[1] * b[2] - b[1] * a[2], a[2] * b[2])
    ELSE IF IsInf(a) /\ IsInf(b) THEN (IF a = b THEN NaN ELSE a)
    ELSE IF IsInf(a) THEN a
    ELSE SignedInf(-InfSign(b))

\* a / b
FDiv(a, b) ==
    IF IsNaN(a) \/ IsNaN(b) THEN NaN
    ELSE IF IsFinite(a) /\ IsFinite(b)
         THEN IF b[1] = 0
              THEN (IF a[1] = 0 THEN NaN ELSE SignedInf(a[1]))
              ELSE Norm(a[1] * b[2] * Sign(b[1]), a[2] * Abs(b[1]))
    ELSE IF IsInf(a) /\ IsInf(b) THEN NaN
    ELSE IF IsInf(a) THEN SignedInf(InfSign(a) * DivSign(b))
    ELSE Fin(0)

\* a * b
FMul(a, b) ==
    IF IsNaN(a) \/ IsNaN(b) THEN NaN
    ELSE IF IsFinite(a) /\ IsFinite(b) THEN Norm(a[1] * b[1], a[2] * b[2])
    ELSE IF a[1] = 0 \/ b[1] = 0 THEN NaN
    ELSE SignedInf(Sign(a[1]) * Sign(b[1]))

\* a.partial_cmp(&b): "lt", "eq", "gt", or "none" when either side is NaN
PartialCmp(a, b) ==
    IF IsNaN(a) \/ IsNaN(b) THEN "none"
    ELSE IF FLt(a, b) THEN "lt"
    ELSE IF FLt(b, a) THEN "gt"
    ELSE "eq"

(***************************************************************************)
(* calculate                                                               *)
(***************************************************************************)
calculate_ge(older, newer) ==
    IF ~FLt(older, Fin(0)) /\ ~IsNaN(older)
    THEN FMul(FDiv(FSub(newer, older), older), Fin(100))
    ELSE Fin(0)

calculate_magnitude(older, newer) ==
    IF FGt(older, Fin(0))
    THEN FMul(FDiv(FSub(older, newer), older), Fin(100))
    ELSE Fin(0)

calculate(older, newer) ==
    IF FGt(older, Fin(0))
    THEN FMul(FDiv(FSub(newer, older), older), Fin(100))
    ELSE Fin(0)

(***************************************************************************)
(* The ticker list, and what the data source can answer                    *)
(***************************************************************************)
ETF_CODES ==
    << "513520", "513350", "513870", "512800", "515000", "513030", "516810",
       "518880", "513500", "512660", "510050", "512000", "513730", "512670",
       "512400", "513080", "517090", "513800", "515750", "520580", "501090",
       "515710", "516970", "520830", "515220", "513110", "561360" >>

\* the tickers a run of the model walks: the first NumCodes of the list
Codes == SubSeq(ETF_CODES, 1, NumCodes)

\* the text of a "close" field: an integer price, "inf", "NaN", or text that
\* is no number ("-inf" is not drawn: -inf reaches calculate only in SpecCalc)
CloseTexts ==
    [t : {"num"}, v : (0 - 1)..MaxPrice]
        \cup [t : {"inf", "nan", "bad"}, v : {0}]

Statuses == {200, 404}

SeqsUpTo(S, n) == UNION {[1..k -> S] : k \in 0..n}

\* what one HTTP exchange can end in: send() fails; the response arrives but
\* reading its text fails; the text is not a JSON array of bars; or it is one,
\* with these close fields
Outcomes(maxLen) ==
    [kind : {"sendErr"}, status : {0}, closes : {<<>>}]
        \cup [kind : {"textErr", "badJson"}, status : Statuses, closes : {<<>>}]
        \cup [kind : {"json"}, status : Statuses,
              closes : SeqsUpTo(CloseTexts, maxLen)]

NoOutcome == [kind |-> "none", status |-> 0, closes |-> <<>>]

(***************************************************************************)
(* fetch_etf_kline                                                         *)
(***************************************************************************)
\* item.close.parse::<f64>()
ParseF64(text) ==
    CASE text.t = "num" -> [ok |-> TRUE, val |-> Fin(text.v)]
      [] text.t = "inf" -> [ok |-> TRUE, val |-> PInf]
      [] text.t = "nan" -> [ok |-> TRUE, val |-> NaN]
      [] OTHER -> [ok |-> FALSE, val |-> NaN]

FetchOk(prices, status) == [ok |-> TRUE, prices |-> prices, status |-> <<status>>]
FetchErr == [ok |-> FALSE, prices |-> <<>>, status |-> <<>>]

RECURSIVE CollectCloses_keep(_, _, _)
CollectCloses_keep(data, closes, status) ==
    IF data = <<>> THEN FetchOk(closes, status)
    ELSE LET p == ParseF64(Head(data))
         IN  IF p.ok
             THEN CollectCloses_keep(Tail(data), Append(closes, p.val), status)
             ELSE FetchOk(closes, status)

\* the loop over the bars: push every close, give up on the first bad one
RECURSIVE CollectCloses(_, _, _)
CollectCloses(data, closes, status) ==
    IF data = <<>> THEN FetchOk(closes, status)
    ELSE LET p == ParseF64(Head(data))
         IN  IF p.ok
             THEN CollectCloses(Tail(data), Append(closes, p.val), status)
             ELSE FetchOk(<<>>, status)

FetchEtfKline(o) ==
    CASE o.kind = "sendErr" -> FetchErr
      [] o.kind = "textErr" -> FetchErr
      [] o.kind = "badJson" -> FetchOk(<<>>, o.status)
      [] OTHER -> CollectCloses(o.closes, <<>>, o.status)

(***************************************************************************)
(* main: the body of the loop over the tickers                             *)
(***************************************************************************)
Row(code, rate, half) == [code |-> code, rate |-> rate, half |-> half]
Diag(kind, code, n) == [kind |-> kind, code |-> code, n |-> n]

\* prices[k] of the Vec (k counted from 0) is in bounds
InBounds(prices, k) == 0 <= k /\ k < Len(prices)
At(prices, k) == prices[k + 1]

EnoughData(prices, d) == Len(prices) >= d

PricePre(prices) == At(prices, 0)

PriceToday(prices, d) == At(prices, d - 1)

Declined_le(price_today, price_pre) == ~FLt(price_pre, price_today)

Declined(price_today, price_pre) == FLt(price_today, price_pre)

HalfDayIdx(d) == IF d > 1 THEN d \div 2 ELSE 0

HalfDayDeclineRate_mid(prices, d) ==
    IF HalfDayIdx(d) < Len(prices) /\ d > 1
    THEN calculate(PricePre(prices), At(prices, HalfDayIdx(d)))
    ELSE Fin(0)

HalfDayDeclineRate(prices, d) ==
    IF HalfDayIdx(d) < Len(prices) /\ d > 1
    THEN calculate(PricePre(prices), At(prices, d - 1 - HalfDayIdx(d)))
    ELSE Fin(0)

\* the iteration panics: prices[0] of an empty Vec, or day - 1 with day = 0
\* (an overflow panic in a debug build; in a release build the index wraps to
\* usize::MAX and prices[usize::MAX] is out of bounds)
BodyPanics(r, d) ==
    /\ r.ok
    /\ ~(r.status # <<>> /\ r.status[1] # 200)
    /\ EnoughData(r.prices, d)
    /\ \/ ~InBounds(r.prices, 0)
       \/ d = 0
       \/ ~InBounds(r.prices, d - 1)
       \/ /\ Declined(PriceToday(r.prices, d), PricePre(r.prices))
          /\ HalfDayIdx(d) < Len(r.prices) /\ d > 1
          /\ ~InBounds(r.prices, d - 1 - HalfDayIdx(d))

\* one iteration that does not panic: the results and stderr after it
LoopBody(code, r, d, res, err) ==
    IF ~r.ok
    THEN [results |-> res, stderr |-> Append(err, Diag("fetch", code, 0))]
    ELSE IF r.status # <<>> /\ r.status[1] # 200
    THEN [results |-> res, stderr |-> Append(err, Diag("http", code, r.status[1]))]
    ELSE IF EnoughData(r.prices, d)
    THEN IF Declined(PriceToday(r.prices, d), PricePre(r.prices))
         THEN [results |->
                  Append(res, Row(code,
                                  calculate(PricePre(r.prices), PriceToday(r.prices, d)),
                                  HalfDayDeclineRate(r.prices, d))),
               stderr |-> err]
         ELSE [results |-> res, stderr |-> err]
    ELSE [results |-> res,
          stderr |-> Append(err, Diag("short", code, Len(r.prices)))]

(***************************************************************************)
(* main: the report                                                        *)
(***************************************************************************)
Compare_rev(a, b) == PartialCmp(b.rate, a.rate)

\* the closure handed to sort_by: |a, b| a.1.partial_cmp(&b.1)
Compare(a, b) == PartialCmp(a.rate, b.rate)

Front(s) == SubSeq(s, 1, Len(s) - 1)

\* one step of the stable insertion sort: x moves left past every element it
\* is less than
RECURSIVE InsertTail(_, _)
InsertTail(s, x) ==
    IF s = <<>> THEN <<x>>
    ELSE IF Compare(x, s[Len(s)]) = "lt"
         THEN Append(InsertTail(Front(s), x), s[Len(s)])
         ELSE Append(s, x)

RECURSIVE SortFrom(_, _)
SortFrom(sorted, rest) ==
    IF rest = <<>> THEN sorted
    ELSE SortFrom(InsertTail(sorted, Head(rest)), Tail(rest))

\* results.sort_by(..): a stable sort
SortBy(rs) == SortFrom(<<>>, rs)

\* .unwrap() of a comparison with NaN panics; a slice of fewer than two rows
\* is never compared, and in a longer one every row is compared at least once
SortPanics(rs) ==
    Len(rs) >= 2 /\ \E k \in DOMAIN rs : IsNaN(rs[k].rate)

\* {:.2}: the value in hundredths, rounded half to even; NaN and inf by name
Fmt2(x) ==
    IF IsNaN(x) THEN [t |-> "NaN", v |-> 0]
    ELSE IF x = PInf THEN [t |-> "inf", v |-> 0]
    ELSE IF x = NInf THEN [t |-> "-inf", v |-> 0]
    ELSE LET num == Abs(x[1]) * 100
             q == num \div x[2]
             twice == 2 * (num % x[2])
             mag == IF twice > x[2] \/ (twice = x[2] /\ q % 2 = 1)
                    THEN q + 1 ELSE q
         IN  [t |-> "num", v |-> Sign(x[1]) * mag]

Line(kind, code, d, hald_day, rate, new_rate) ==
    [kind |-> kind, code |-> code, day |-> d, hald_day |-> hald_day,
     rate |-> rate, new_rate |-> new_rate]

NoText == [t |-> "", v |-> 0]

TitleLine(d) == Line("title", "", d, 0, NoText, NoText)
RuleLine == Line("rule", "", 0, 0, NoText, NoText)
NoDataLine == Line("nodata", "", 0, 0, NoText, NoText)
RowLine(row, d) ==
    Line("row", row.code, d, d \div 2, Fmt2(row.rate), Fmt2(row.half))

Header(d) == << TitleLine(d), RuleLine >>

IsEmpty_never(rs) == FALSE

IsEmpty(rs) == rs = <<>>

\* the lines printed after the header
ReportBody(rs, d) ==
    IF IsEmpty(rs) THEN << NoDataLine >>
    ELSE [k \in DOMAIN rs |-> RowLine(rs[k], d)]

(***************************************************************************)
(* What the environment handed to one iteration, read off the exchange     *)
(* itself (history only: the program never reads these)                    *)
(***************************************************************************)
\* every close field of the body is a number
AllParse(o) == \A k \in DOMAIN o.closes : o.closes[k].t # "bad"

\* the series the exchange carries, oldest bar first
SeriesOf(o) ==
    IF o.kind = "json" /\ AllParse(o)
    THEN [k \in DOMAIN o.closes |-> ParseF64(o.closes[k]).val]
    ELSE <<>>

TransportError(o) == o.kind \in {"sendErr", "textErr"}
Returned200(o) == ~TransportError(o) /\ o.status = 200
Malformed(o) == o.kind = "badJson" \/ (o.kind = "json" /\ ~AllParse(o))

\* status 200, at least d bars, and bar d below bar 1
Qualifies(o, d) ==
    /\ d >= 1
    /\ Returned200(o)
    /\ Len(SeriesOf(o)) >= d
    /\ FLt(SeriesOf(o)[d], SeriesOf(o)[1])

\* transport error, non-200 status, malformed body, or fewer than d bars
Fails(o, d) ==
    \/ TransportError(o)
    \/ o.status # 200
    \/ Malformed(o)
    \/ Len(SeriesOf(o)) < d

(***************************************************************************)
(* The state machine of main                                               *)
(***************************************************************************)
NoCall == [older |-> NaN, newer |-> NaN, ret |-> NaN]

Init ==
    /\ day \in 0..MaxDay
    /\ idx = 0
    /\ pc = "loop"
    /\ requests = <<>>
    /\ results = <<>>
    /\ pushed = <<>>
    /\ stderr = <<>>
    /\ stdout = <<>>
    /\ qualified = <<>>
    /\ failed = <<>>
    /\ last = NoOutcome
    /\ call = NoCall

Advance_retry(i, r) == IF r.ok THEN i + 1 ELSE i

\* the for loop moves to the next ticker whatever the iteration did
Advance(i, r) == i + 1

\* for &code in ETF_CODES { fetch_etf_kline(code, day) ... : the GET is sent
Request ==
    /\ pc = "loop"
    /\ idx < NumCodes
    /\ requests' = Append(requests, [code |-> Codes[idx + 1], datalen |-> day])
    /\ pc' = "await"
    /\ UNCHANGED <<day, idx, results, pushed, stderr, stdout, qualified, failed,
                   last, call>>

\* ... .await: the exchange ends in o, and the rest of the iteration runs
Step(o, keep) ==
    /\ pc = "await"
    /\ LET code == Codes[idx + 1]
           r == FetchEtfKline(o)
       IN  IF BodyPanics(r, day)
           THEN /\ pc' = "panicked"
                /\ UNCHANGED <<idx, results, pushed, stderr, qualified, failed>>
           ELSE LET after == LoopBody(code, r, day, results, stderr)
                IN  /\ results' = after.results
                    /\ pushed' = after.results
                    /\ stderr' = after.stderr
                    /\ idx' = Advance(idx, r)
                    /\ pc' = "loop"
                    /\ qualified' = Append(qualified, Qualifies(o, day))
                    /\ failed' = Append(failed, Fails(o, day))
    /\ last' = IF keep THEN o ELSE NoOutcome
    /\ UNCHANGED <<day, requests, stdout, call>>

Respond == \E o \in Outcomes(RunLen) : Step(o, FALSE)

\* after the loop: header, then "No ETF data" or the sorted rows
Report ==
    /\ pc = "loop"
    /\ idx >= NumCodes
    /\ IF ~IsEmpty(results) /\ SortPanics(results)
       THEN /\ stdout' = stdout \o Header(day)
            /\ pc' = "panicked"
            /\ UNCHANGED results
       ELSE LET sorted == IF IsEmpty(results) THEN results ELSE SortBy(results)
            IN  /\ stdout' = stdout \o Header(day) \o ReportBody(sorted, day)
                /\ results' = sorted
                /\ pc' = "done"
    /\ UNCHANGED <<day, idx, requests, pushed, stderr, qualified, failed, last, call>>

Next == Request \/ Respond \/ Report

Spec == Init /\ [][Next]_vars

(***************************************************************************)
(* One iteration alone, over longer responses; the exchange is kept in     *)
(* `last` so that the row can be compared with it                          *)
(***************************************************************************)
RequestFirst == idx = 0 /\ Request

RespondFirst == idx = 0 /\ \E o \in Outcomes(MaxLen) : Step(o, TRUE)

IterNext == RequestFirst \/ RespondFirst

SpecIter == Init /\ [][IterNext]_vars

(***************************************************************************)
(* calculate alone                                                         *)
(***************************************************************************)
CalcVals ==
    {Fin(n) : n \in ((0 - 1)..MaxPrice) \cup {50, 90, 100, 110}}
        \cup {NaN, PInf, NInf}

InitCalc ==
    /\ day = 0
    /\ idx = 0
    /\ pc = "calc"
    /\ requests = <<>>
    /\ results = <<>>
    /\ pushed = <<>>
    /\ stderr = <<>>
    /\ stdout = <<>>
    /\ qualified = <<>>
    /\ failed = <<>>
    /\ last = NoOutcome
    /\ call \in [older : CalcVals, newer : CalcVals, ret : {NaN}]

Calc ==
    /\ pc = "calc"
    /\ call' = [call EXCEPT !.ret = calculate(call.older, call.newer)]
    /\ pc' = "calc_done"
    /\ UNCHANGED <<day, idx, requests, results, pushed, stderr, stdout,
                   qualified, failed, last>>

CalcNext == Calc

SpecCalc == InitCalc /\ [][CalcNext]_vars

(***************************************************************************)
(* Properties                                                              *)
(***************************************************************************)
Zero == Fin(0)
FLe(a, b) == FLt(a, b) \/ (a = b /\ ~IsNaN(a))

\* order of two printed figures: -inf, then the numbers, then inf
TextLe(a, b) ==
    /\ a.t # "NaN" /\ b.t # "NaN"
    /\ \/ a.t = "-inf"
       \/ b.t = "inf"
       \/ a.t = "num" /\ b.t = "num" /\ a.v <= b.v

Count(s, x) == Cardinality({k \in DOMAIN s : s[k] = x})
IsPermutation(s, t) ==
    /\ Len(s) = Len(t)
    /\ \A k \in DOMAIN s : Count(s, s[k]) = Count(t, s[k])

KindCount(out, kind) == Cardinality({k \in DOMAIN out : out[k].kind = kind})
CodeCount(out, code) == Cardinality({k \in DOMAIN out : out[k].code = code})
IsRow(l) == l.kind = "row"
PrintedRows == SelectSeq(stdout, IsRow)
Printed(code) == \E k \in DOMAIN PrintedRows : PrintedRows[k].code = code
Collected(code) == \E k \in DOMAIN pushed : pushed[k].code = code

\* the first iteration has run to its end, on the exchange kept in `last`
FirstDone == pc = "loop" /\ idx = 1 /\ last # NoOutcome
Series == SeriesOf(last)

\* C1: whatever `day` the command line yields (0 included) and whatever the
\* exchanges end in, main never aborts part-way: no index is out of bounds,
\* day - 1 never underflows, and no other panic ends the run.
C1_NeverAborts == pc # "panicked"

C3_OneDiagnosticPerFailure ==
    day >= 1 =>
        /\ \A k \in DOMAIN failed :
              /\ CodeCount(stderr, Codes[k]) = (IF failed[k] THEN 1 ELSE 0)
              /\ failed[k] => ~Collected(Codes[k]) /\ ~Printed(Codes[k])
        /\ Len(stderr) <= Len(failed)

\* a finished run in which a short but non-empty series was logged and another
\* ticker went through without a diagnostic
C3_Witness ==
    /\ pc = "done" /\ day >= 1
    /\ \E k \in DOMAIN stderr : stderr[k].kind = "short" /\ stderr[k].n >= 1
    /\ \E k \in DOMAIN failed : ~failed[k]

C5_HalfAtMidpointIndex ==
    (FirstDone /\ Qualifies(last, day) /\ day >= 2) =>
        /\ Len(results) = 1
        /\ results[1].half = calculate(Series[1], At(Series, day \div 2))

\* C5 amended: for day >= 2 the half-window figure of a qualifying ticker is
\* calculate(series[0], series[day - 1 - day/2]); for day <= 1 the figure the
\* iteration computes is 0.0.
C5_HalfAtDaysAgoIndex ==
    /\ (FirstDone /\ Qualifies(last, day) /\ day >= 2) =>
          /\ Len(results) = 1
          /\ results[1].half
                = calculate(Series[1], At(Series, day - 1 - (day \div 2)))
    /\ (FirstDone /\ day <= 1) =>
          /\ HalfDayDeclineRate(Series, day) = Zero
          /\ \A k \in DOMAIN results : results[k].half = Zero

\* a row of a three-day window whose half-window figure is a finite change
C5_Witness ==
    /\ FirstDone /\ Qualifies(last, day) /\ day = 3
    /\ Len(results) = 1
    /\ IsFinite(results[1].half) /\ results[1].half # Zero
    /\ At(Series, 1) # At(Series, 2)

\* C6: calculate(older, newer) is ((newer - older) / older) * 100 for older > 0
\* and 0 for older <= 0; calculate(100, 90) = -10, calculate(100, 110) = 10,
\* calculate(0, 50) = 0.
C6_Calculate ==
    pc = "calc_done" =>
        LET o == call.older
            n == call.newer
            r == call.ret
        IN  /\ (IsFinite(o) /\ IsFinite(n) /\ o[1] > 0) =>
                  /\ IsFinite(r)
                  /\ r[1] * n[2] * o[1] = (n[1] * o[2] - o[1] * n[2]) * 100 * r[2]
            /\ (IsFinite(o) /\ o[1] <= 0) => r = Zero
            /\ o = NInf => r = Zero
            /\ (o = Fin(100) /\ n = Fin(90)) => r = Fin(-10)
            /\ (o = Fin(100) /\ n = Fin(110)) => r = Fin(10)
            /\ (o = Zero /\ n = Fin(50)) => r = Zero

\* calculate(0, 50) has returned
C6_Witness ==
    pc = "calc_done" /\ call.older = Zero /\ call.newer = Fin(50) /\ call.ret = Zero

C9_RateNegative ==
    (FirstDone /\ Qualifies(last, day)) =>
        /\ Len(results) = 1
        /\ FLt(results[1].rate, Zero)

\* C9 amended: the rate of a row is strictly negative when series[0] is a
\* finite positive price, exactly 0 when series[0] is zero or negative, and
\* NaN when series[0] is infinite.
C9_RateNegativeForPositivePrice ==
    (FirstDone /\ Qualifies(last, day)) =>
        /\ Len(results) = 1
        /\ (IsFinite(Series[1]) /\ Series[1][1] > 0) => FLt(results[1].rate, Zero)
        /\ (IsFinite(Series[1]) /\ Series[1][1] <= 0) => results[1].rate = Zero
        /\ Series[1] = PInf => IsNaN(results[1].rate)

\* a row for a decline from a positive price
C9_Witness ==
    /\ FirstDone /\ Qualifies(last, day)
    /\ Series[1] = Fin(1)
    /\ Len(results) = 1 /\ FLt(results[1].rate, Zero)

\* C10: for every returned series of at least `day` bars the comparison is
\* between the last bar and the bar day-1 places before it: the most recent
\* `day` bars.
C10_NewestWindow ==
    (FirstDone /\ day >= 1 /\ Returned200(last) /\ Len(Series) >= day) =>
        LET price_today == Series[Len(Series)]
            price_pre == Series[Len(Series) - day + 1]
        IN  /\ Len(results) = 1 <=> FLt(price_today, price_pre)
            /\ Len(results) = 1 =>
                  results[1].rate = calculate(price_pre, price_today)

====
